---- MODULE Spec2Model ----
(***************************************************************************)
(* Telemetry acquisition layer of sv2-ui: the hashrate History Store       *)
(* (context/HashrateHistoryContext), the Aggregating Fetcher, the Mode     *)
(* Selector and the Health Prober (hooks/usePoolData).                     *)
(*                                                                         *)
(* Three specifications share the module:                                  *)
(*   SpecHistory  - the History Store and its local-storage snapshot       *)
(*   SpecFetch    - one run of fetchAllClientChannels                      *)
(*   SpecProbe    - detectMode and the two health queries                  *)
(***************************************************************************)
EXTENDS Integers, Sequences, FiniteSets, TLC

\* ---------------------------------------------------------------------------
\* Program constants (context/HashrateHistoryContext)
\* ---------------------------------------------------------------------------
MAX_HISTORY_POINTS == 60

SAMPLE_INTERVAL_MS == 5000

MAX_AGE_MS == 60 * 60 * 1000

\* useStackMode: staleTime: 30000
STALE_TIME == 30000

\* useStackMode: refetchInterval: 30000
MODE_REFETCH_INTERVAL == 30000

\* usePoolData, useSv1ClientsData: refetchInterval: 3000
DATA_REFETCH_INTERVAL == 3000

\* retries of a failed data request before its error is surfaced: the data
\* queries set no retry option, the polling loops are retry-free
DefaultRetry == 0

\* ---------------------------------------------------------------------------
\* Bounds of the model
\* ---------------------------------------------------------------------------
\* Date.now() when the first modelled session starts (ms); real clocks are far
\* past MAX_AGE_MS, so lastSampleTime = 0 lies more than an interval back.
StartTime == 10000000

\* number of clock advances in one behaviour
MaxTicks == 3

\* number of store operations (load, record, clear) in one behaviour
MaxOps == 4

\* evaluations of the connection state kept in one behaviour
MaxEvals == 3

\* longest item list the /clients request returns
MaxItems == 3

\* longest extended or standard channel list of a server-channels response
MaxChannels == 2

\* requests of the data streams that settle in one behaviour
MaxCycles == 2

\* clock advances of 1 ms and of STALE_TIME - 1 ms in one behaviour of the
\* mode cache; advances of half a staleness window are not limited
MaxFine == 2

\* hashrate values handed to record(): totalHashrate is always a finite number
Hashrates == {0, 7}

\* clock advances: 1 ms, just under the sampling interval, and the rest of the
\* age window, so that both boundaries (5000 ms, 1 h) are hit exactly
TickSteps == {1, SAMPLE_INTERVAL_MS - 1, MAX_AGE_MS - SAMPLE_INTERVAL_MS}

VARIABLES
    \* ---- History Store ----
    now,             \* Date.now()
    ticks,           \* clock advances so far
    ops,             \* store operations so far
    phase,           \* "unloaded" (no provider mounted) | "mounted"
    history,         \* state.history of the provider
    lastSampleTime,  \* lastSampleTime.current
    storage,         \* localStorage entry under STORAGE_KEY
    accepted,        \* samples accepted since the storage key was first absent
    session,         \* timestamps accepted by the mounted provider
    raised,          \* an exception left load, record or clear
    op,              \* the last store operation and its outcomes
    \* ---- Aggregating Fetcher (one call of fetchAllClientChannels) ----
    fpc,             \* "idle" | "list" | "details" | "resolved" | "rejected"
    listOutcome,     \* how the /clients request settled ("none" before)
    items,           \* clientsResponse.items (client ids)
    legs,            \* channelResults: per item Pending, Null or a response
    legOutcome,      \* how each detail request settled ("none" before)
    settleOrder,     \* item indexes in the order their requests settled
    detailRequests,  \* client ids a detail request was issued for
    result,          \* the value the call resolved with (kind "none" before)
    \* ---- Mode Selector and Health Prober ----
    backend,         \* condition of each backend service
    dpc,             \* detectMode: "idle" | "probing" | "done"
    dOutcome,        \* how the primary probe of detectMode settled
    dResult,         \* what detectMode returned or threw (kind "none" before)
    hq,              \* the two health queries
    \* ---- Derived Status Engine ----
    evalLog,         \* evaluations of getConnectionState: inputs and result
    \* ---- Mode cache (the query cache entries read through useStackMode) ----
    queries,         \* per query key: data, previous data, fetching, age of data
    mounted,         \* consumers whose usePoolData is mounted
    timer,           \* per consumer: ms until its refetch interval fires
    fine,            \* limited clock advances used so far
    \* ---- Polling of the data streams (usePoolData, useSv1ClientsData) ----
    streams,         \* per query key of a data stream: its cache entry
    requests,        \* <<path, base URL>> of every request issued so far
    cycles,          \* requests of the data streams settled so far
    \* ---- Share statistics of the pages ----
    serverChannels,  \* usePoolData().serverChannels as a page last rendered it
    shareView,       \* the share sums and acceptance rates the pages derived
    \* ---- Dashboard feeding the history ----
    dash             \* what the dashboard's data hooks returned at its last render

hvars == <<now, ticks, ops, phase, history, lastSampleTime, storage, accepted,
           session, raised, op>>

fvars == <<fpc, listOutcome, items, legs, legOutcome, settleOrder,
           detailRequests, result>>

pvars == <<backend, dpc, dOutcome, dResult, hq>>

svars == <<evalLog>>

mvars == <<queries, mounted, timer, fine>>

qvars == <<streams, requests, cycles>>

rvars == <<serverChannels, shareView>>

dvars == <<dash>>

vars == <<hvars, fvars, pvars, svars, mvars, qvars, rvars, dvars>>

\* what the actions of one component leave alone
notHistory == <<fvars, pvars, svars, mvars, qvars, rvars, dvars>>

notFetch == <<hvars, pvars, svars, mvars, qvars, rvars, dvars>>

notProbe == <<hvars, fvars, svars, mvars, qvars, rvars, dvars>>

notStatus == <<hvars, fvars, pvars, mvars, qvars, rvars, dvars>>

notMode == <<hvars, fvars, svars, dpc, dOutcome, dResult, hq, qvars, rvars, dvars>>

notPoll == <<hvars, fvars, svars, dpc, dOutcome, dResult, hq, timer, fine,
            rvars, dvars>>

notRate == <<hvars, fvars, pvars, svars, mvars, qvars, dvars>>

notDash == <<fvars, pvars, svars, mvars, qvars, rvars>>

\* ---------------------------------------------------------------------------
\* Values
\* ---------------------------------------------------------------------------
Min(a, b) == IF a < b THEN a ELSE b

\* new Date(now).toLocaleTimeString('en-US', {hour, minute, hour12: false})
TimeStr(ts) == <<(ts \div 3600000) % 24, (ts \div 60000) % 60>>

\* the payload addPoint dispatches
DataPoint(ts, v) == [time |-> TimeStr(ts), timestamp |-> ts, hashrate |-> v]

\* localStorage.getItem returns null when the key is absent
Absent == [kind |-> "absent"]

\* a stored string that JSON.parse rejects, or that parses to a non-array
Corrupt == [kind |-> "corrupt"]

\* the write serialising only the newest point instead of the whole history
JSONstringify_Latest(h) ==
    [kind |-> "json",
     text |-> [i \in 1..Min(Len(h), 1) |->
                 <<"time", h[Len(h)].time, "timestamp", h[Len(h)].timestamp,
                   "hashrate", h[Len(h)].hashrate>>]]

\* JSON.stringify(state.history): an array of objects, one per point
JSONstringify(h) ==
    [kind |-> "json",
     text |-> [i \in 1..Len(h) |->
                 <<"time", h[i].time, "timestamp", h[i].timestamp,
                   "hashrate", h[i].hashrate>>]]

\* JSON.parse(stored) as HashrateDataPoint[]
JSONparse(s) ==
    [i \in 1..Len(s.text) |->
        [time |-> s.text[i][2], timestamp |-> s.text[i][4],
         hashrate |-> s.text[i][6]]]

\* Array.prototype.slice(-n)
SliceLast(s, n) ==
    IF Len(s) > n THEN SubSeq(s, Len(s) - n + 1, Len(s)) ELSE s

\* ---------------------------------------------------------------------------
\* History Store: loadInitialState, hashrateHistoryReducer, the provider
\* ---------------------------------------------------------------------------
\* Outcome of one localStorage call: it returns, or it throws (quota exceeded,
\* storage disabled)
StorageOutcomes == {"ok", "throw"}

\* the age filter of loadInitialState left out
RecentData_NoFilter(data, t) == data

\* const recentData = data.filter(point => now - point.timestamp < MAX_AGE_MS)
RecentData(data, t) == SelectSeq(data, LAMBDA point : t - point.timestamp < MAX_AGE_MS)

\* loadInitialState(): st is the stored entry, t is Date.now(), r the outcome
\* of getItem.  Everything runs inside try { } catch { }, so a throwing
\* getItem, JSON.parse or data.filter falls through to { history: [] }.
loadInitialState(st, t, r) ==
    IF r = "throw" \/ st.kind = "corrupt"
    THEN [history |-> <<>>, raised |-> FALSE]
    ELSE IF st.kind = "absent"
    THEN [history |-> <<>>, raised |-> FALSE]
    ELSE [history |-> SliceLast(RecentData(JSONparse(st), t), MAX_HISTORY_POINTS),
          raised  |-> FALSE]

\* the reducer with the capacity check of ADD_POINT left out
hashrateHistoryReducer_NoCap(state, action) ==
    CASE action.type = "ADD_POINT" -> Append(state, action.payload)
      [] action.type = "LOAD"  -> action.payload
      [] action.type = "CLEAR" -> <<>>
      [] OTHER -> state

\* hashrateHistoryReducer(state, action); state is the history sequence
hashrateHistoryReducer(state, action) ==
    CASE action.type = "ADD_POINT" ->
            LET updated == Append(state, action.payload)
            IN  IF Len(updated) > MAX_HISTORY_POINTS
                THEN SliceLast(updated, MAX_HISTORY_POINTS)
                ELSE updated
      [] action.type = "LOAD"  -> action.payload
      [] action.type = "CLEAR" -> <<>>
      [] OTHER -> state

\* the persist effect with the try/catch around setItem left out
persistEffect_NoCatch(h, st, w) ==
    [storage |-> IF w = "ok" THEN JSONstringify(h) ELSE st,
     raised  |-> (w = "throw")]

\* The persist effect of the provider: setItem(STORAGE_KEY, stringify(history))
\* inside try { } catch { }; w is the outcome of setItem.
persistEffect(h, st, w) ==
    [storage |-> IF w = "ok" THEN JSONstringify(h) ELSE st,
     raised  |-> FALSE]

\* localStorage.removeItem(STORAGE_KEY) inside try { } catch { } (clear)
removeSnapshot(st, r) ==
    [storage |-> IF r = "ok" THEN Absent ELSE st,
     raised  |-> FALSE]

\* addPoint's throttle: TRUE when the call returns early
Throttled(t, last) == t - last < SAMPLE_INTERVAL_MS

\* addPoint forgetting the assignment lastSampleTime.current = now
StampAccepted_Stale(t, last) == last

\* the value addPoint leaves in lastSampleTime.current when it accepts at t
StampAccepted(t, last) == t

\* Snapshots an earlier session of the program can have left behind: k samples
\* taken at the sampling cadence, the last one at time end.
Cadence(k, end) ==
    [i \in 1..k |-> DataPoint(end - (k - i) * SAMPLE_INTERVAL_MS, 7)]

\* a full buffer, an almost full one, and a buffer whose session idled for two
\* hours between two samples
InitialSnapshots ==
    { Cadence(MAX_HISTORY_POINTS, StartTime - 1),
      Cadence(MAX_HISTORY_POINTS - 1, StartTime - SAMPLE_INTERVAL_MS),
      <<DataPoint(StartTime - 2 * MAX_AGE_MS, 7), DataPoint(StartTime - 60000, 7)>> }

NoOp == [name |-> "init", added |-> FALSE, r |-> "none", w |-> "none"]

Backends == {"jdc", "translator"}

\* no query has run: useQuery starts pending, without data
FreshQuery ==
    [status |-> "pending", data |-> "undefined", fetching |-> FALSE,
     outcome |-> "none", fnResult |-> [kind |-> "none"]]

\* the pages that call usePoolData, each mounting useStackMode
Consumers == {"Dashboard", "PoolStats", "Settings"}

\* useStackMode with a query key of its own for every consumer
ModeQueryKey_PerConsumer(c) == c

\* useStackMode: queryKey: ['stack-mode'], the same for every consumer
ModeQueryKey(c) == "stack-mode"

\* the entries of the query cache that useStackMode reads
ModeQueryKeys == {ModeQueryKey(c) : c \in Consumers}

\* a cache entry before its first fetch: pending, no data
FreshModeQuery ==
    [data |-> "undefined", prev |-> "undefined", fetching |-> FALSE, age |-> 0]

\* nothing mounted, the cache empty
MQuiet ==
    /\ queries = [k \in ModeQueryKeys |-> FreshModeQuery]
    /\ mounted = {}
    /\ timer = [c \in Consumers |-> 0]
    /\ fine = 0

\* the three streams of usePoolData and the stream of useSv1ClientsData
PoolStreams == {"pool-global", "server-channels", "client-channels"}

Streams == PoolStreams \cup {"sv1-clients"}

\* the query keys of the pool streams without the mode
CurrentKey_NoMode(s, mode) == IF s \in PoolStreams THEN <<s, "undefined">> ELSE <<s, "page">>

\* queryKey: ['pool-global', mode], ['server-channels', mode],
\* ['client-channels', mode]; ['sv1-clients', offset, limit]
CurrentKey(s, mode) == IF s \in PoolStreams THEN <<s, mode>> ELSE <<s, "page">>

StreamKeys == {CurrentKey(s, m) : s \in Streams, m \in {"undefined", "jdc", "translator"}}

\* a cache entry of a data stream before its first fetch; from is the base
\* URL the fetch in flight was sent to, source the base URL its data came from
FreshStream ==
    [status |-> "pending", fetching |-> FALSE, outcome |-> "none",
     failureCount |-> 0, due |-> 0,
     from |-> "none", source |-> "none"]

\* no data stream has fetched, no request was issued
QQuiet ==
    /\ streams = [k \in StreamKeys |-> FreshStream]
    /\ requests = {}
    /\ cycles = 0

\* a query's data before its first successful fetch
Undefined == [kind |-> "undefined"]

\* no page has rendered share statistics yet
RQuiet ==
    /\ serverChannels = Undefined
    /\ shareView = [kind |-> "none"]

\* what the dashboard's hooks return on its first render: the mode is
\* pending, no query has data, the health probes are in flight
FirstRender ==
    [rendered |-> TRUE, mode |-> "undefined", poolGlobal |-> Undefined,
     sv1Data |-> Undefined, health |-> "loading"]

\* the dashboard is not mounted, the query cache is empty
DQuiet == dash = [FirstRender EXCEPT !.rendered = FALSE]

\* both backends up, the selector and the probers before their first run
PQuiet ==
    /\ evalLog = <<>>
    /\ MQuiet
    /\ QQuiet
    /\ RQuiet
    /\ DQuiet
    /\ backend = [b \in Backends |-> "healthy"]
    /\ dpc = "idle"
    /\ dOutcome = "none"
    /\ dResult = [kind |-> "none"]
    /\ hq = [b \in Backends |-> FreshQuery]

\* the fetcher at rest
FIdle ==
    /\ fpc = "idle"
    /\ listOutcome = "none"
    /\ items = <<>>
    /\ legs = <<>>
    /\ legOutcome = <<>>
    /\ settleOrder = <<>>
    /\ detailRequests = {}
    /\ result = [kind |-> "none"]

HInit ==
    /\ FIdle
    /\ PQuiet
    /\ now = StartTime
    /\ ticks = 0
    /\ ops = 0
    /\ phase = "unloaded"
    /\ history = <<>>
    /\ lastSampleTime = 0
    /\ \E snap \in InitialSnapshots \cup {<<>>} :
          /\ storage = (IF snap = <<>> THEN Absent ELSE JSONstringify(snap))
          /\ accepted = Len(snap)
    /\ session = {}
    /\ raised = FALSE
    /\ op = NoOp

\* Process start: useReducer(reducer, undefined, loadInitialState), the ref
\* lastSampleTime = 0, then the persist effect of the first render.
Load(r, w) ==
    /\ phase = "unloaded"
    /\ ops < MaxOps
    /\ LET loaded == loadInitialState(storage, now, r)
           saved  == persistEffect(loaded.history, storage, w)
       IN  /\ history' = loaded.history
           /\ storage' = saved.storage
           /\ raised' = (raised \/ loaded.raised \/ saved.raised)
    /\ lastSampleTime' = 0
    /\ session' = {}
    /\ phase' = "mounted"
    /\ ops' = ops + 1
    /\ op' = [name |-> "load", added |-> FALSE, r |-> r, w |-> w]
    /\ UNCHANGED <<now, ticks, accepted>>
    /\ UNCHANGED notHistory

\* The page is closed or reloaded: the provider and its ref are gone, the
\* stored entry stays.
Unload ==
    /\ phase = "mounted"
    /\ ops < MaxOps
    /\ phase' = "unloaded"
    /\ history' = <<>>
    /\ lastSampleTime' = 0
    /\ session' = {}
    /\ op' = [name |-> "unload", added |-> FALSE, r |-> "none", w |-> "none"]
    /\ UNCHANGED <<now, ticks, ops, storage, accepted, raised>>
    /\ UNCHANGED notHistory

\* addPoint(hashrate), the reducer, and the persist effect that the changed
\* state.history triggers.
AddPoint(v, w) ==
    /\ phase = "mounted"
    /\ ops < MaxOps
    /\ ops' = ops + 1
    /\ IF Throttled(now, lastSampleTime)
       THEN /\ op' = [name |-> "record", added |-> FALSE, r |-> "none", w |-> "none"]
            /\ UNCHANGED <<history, lastSampleTime, storage, accepted, session, raised>>
       ELSE LET next  == hashrateHistoryReducer(history,
                            [type |-> "ADD_POINT", payload |-> DataPoint(now, v)])
                saved == persistEffect(next, storage, w)
            IN  /\ lastSampleTime' = StampAccepted(now, lastSampleTime)
                /\ history' = next
                /\ storage' = saved.storage
                /\ raised' = (raised \/ saved.raised)
                /\ accepted' = accepted + 1
                /\ session' = session \cup {now}
                /\ op' = [name |-> "record", added |-> TRUE, r |-> "none", w |-> w]
    /\ UNCHANGED <<now, ticks, phase>>

Record(v, w) == AddPoint(v, w) /\ UNCHANGED notHistory

\* clear(): dispatch CLEAR, removeItem, then the persist effect of the render
\* that follows (the reducer returns a fresh array, so the effect always runs).
Clear(r, w) ==
    /\ phase = "mounted"
    /\ ops < MaxOps
    /\ ops' = ops + 1
    /\ LET next    == hashrateHistoryReducer(history, [type |-> "CLEAR"])
           removed == removeSnapshot(storage, r)
           saved   == persistEffect(next, removed.storage, w)
       IN  /\ history' = next
           /\ storage' = saved.storage
           /\ raised' = (raised \/ removed.raised \/ saved.raised)
    /\ op' = [name |-> "clear", added |-> FALSE, r |-> r, w |-> w]
    /\ UNCHANGED <<now, ticks, phase, lastSampleTime, accepted, session>>
    /\ UNCHANGED notHistory

\* The stored entry is damaged outside the program (truncated or overwritten)
CorruptSnapshot ==
    /\ phase = "unloaded"
    /\ storage.kind = "json"
    /\ storage' = Corrupt
    /\ op' = [name |-> "corrupt", added |-> FALSE, r |-> "none", w |-> "none"]
    /\ UNCHANGED <<now, ticks, ops, phase, history, lastSampleTime, accepted,
                   session, raised>>
    /\ UNCHANGED notHistory

\* Time passes
Tick(d) ==
    /\ ticks < MaxTicks
    /\ ticks' = ticks + 1
    /\ now' = now + d
    /\ op' = [name |-> "tick", added |-> FALSE, r |-> "none", w |-> "none"]
    /\ UNCHANGED <<ops, phase, history, lastSampleTime, storage, accepted,
                   session, raised>>
    /\ UNCHANGED notHistory

HNext ==
    \/ \E r \in StorageOutcomes, w \in StorageOutcomes : Load(r, w)
    \/ Unload
    \/ \E v \in Hashrates, w \in StorageOutcomes : Record(v, w)
    \/ \E r \in StorageOutcomes, w \in StorageOutcomes : Clear(r, w)
    \/ CorruptSnapshot
    \/ \E d \in TickSteps : Tick(d)

SpecHistory == HInit /\ [][HNext]_vars

\* ---------------------------------------------------------------------------
\* Properties of the History Store
\* ---------------------------------------------------------------------------
\* the timestamps persisted under the storage key, in stored order
StoredPoints(st) == IF st.kind = "json" THEN JSONparse(st) ELSE <<>>

\* the step is an accepted record() call
AcceptStep == op'.name = "record" /\ op'.added /\ accepted' = accepted + 1

\* C1: the buffer never holds more than MAX_HISTORY_POINTS samples nor more
\* than the number of samples accepted so far, and an accepted sample is
\* appended at the end, the oldest entry leaving first when the buffer is full
\* and the remaining entries keeping their order.
C1_Capacity ==
    /\ [](Len(history) <= Min(accepted, MAX_HISTORY_POINTS))
    /\ [][AcceptStep =>
            /\ history'[Len(history')].timestamp = now
            /\ IF Len(history) = MAX_HISTORY_POINTS
               THEN /\ Len(history') = MAX_HISTORY_POINTS
                    /\ SubSeq(history', 1, MAX_HISTORY_POINTS - 1) = Tail(history)
               ELSE SubSeq(history', 1, Len(history') - 1) = history]_vars

\* a sample was accepted into a full buffer
C1_Witness ==
    /\ op.name = "record" /\ op.added
    /\ Len(history) = MAX_HISTORY_POINTS
    /\ accepted > MAX_HISTORY_POINTS

\* C2: within one provider, samples accepted are at least SAMPLE_INTERVAL_MS
\* apart, and a record() call made less than SAMPLE_INTERVAL_MS after an
\* accepted one changes neither the buffer nor the last-accepted time.
C2_Throttle ==
    /\ [](\A t1 \in session : \A t2 \in session :
              t1 < t2 => t2 - t1 >= SAMPLE_INTERVAL_MS)
    /\ [][(/\ op'.name = "record"
           /\ ops' = ops + 1
           /\ \E t1 \in session : t1 <= now /\ now - t1 < SAMPLE_INTERVAL_MS)
          => /\ ~op'.added
             /\ history' = history
             /\ lastSampleTime' = lastSampleTime
             /\ storage' = storage]_vars

\* a record() call was refused some time after an accepted one
C2_Witness ==
    /\ op.name = "record" /\ ~op.added
    /\ \E t1 \in session : t1 < now /\ now - t1 = SAMPLE_INTERVAL_MS - 1
    /\ Len(history) >= 1

\* the step is a process start that reads a well-formed snapshot
LoadStep == op'.name = "load" /\ op'.r = "ok" /\ ops' = ops + 1 /\ storage.kind = "json"

\* C3 as stated: a process start drops exactly the persisted entries older than
\* MAX_AGE_MS and keeps every other entry in its stored order.
C3_RestartContinuity ==
    [][LoadStep =>
         history' = SelectSeq(StoredPoints(storage),
                              LAMBDA p : ~(now - p.timestamp > MAX_AGE_MS))]_vars

\* C4 as stated: after clear() and the effect it triggers, with storage
\* working, the buffer is empty and no entry is stored under the key.
C4_ClearRemovesSnapshot ==
    (op.name = "clear" /\ op.r = "ok" /\ op.w = "ok")
        => (history = <<>> /\ storage.kind = "absent")

\* the last operation met a storage failure or a damaged snapshot
FailureMet == op.r = "throw" \/ op.w = "throw" \/ storage.kind = "corrupt"

\* C5 as stated: no failure raises and after any failure the buffer is empty.
C5_DegradesToEmpty ==
    FailureMet => (~raised /\ history = <<>>)

\* C5 amended: no storage failure and no damaged snapshot raises out of load,
\* record or clear; a failed read and a damaged snapshot make the load start
\* from the empty buffer; a failed write during record leaves the stored entry
\* as it was and the accepted sample in the buffer; clear empties the buffer
\* whether or not its remove or write fails.
C5_FailuresContained ==
    /\ [](~raised)
    /\ [][/\ (op'.name = "load" /\ ops' = ops + 1
                /\ (op'.r = "throw" \/ storage.kind = "corrupt"))
             => history' = <<>>
          /\ (AcceptStep /\ op'.w = "throw")
             => (storage' = storage /\ Len(history') >= 1)
          /\ (op'.name = "clear" /\ ops' = ops + 1)
             => /\ history' = <<>>
                /\ (op'.r = "throw" /\ op'.w = "throw") => storage' = storage]_vars

\* a sample was accepted while the write failed, after a start from a damaged
\* snapshot whose rewrite failed too
C5_Witness ==
    /\ op.name = "record" /\ op.added /\ op.w = "throw"
    /\ storage.kind = "corrupt"
    /\ Len(history) = 1

\* C20 as stated: in every reachable state every sample in the buffer is at
\* most MAX_AGE_MS old.
C20_AgeBound ==
    \A i \in 1..Len(history) : now - history[i].timestamp <= MAX_AGE_MS

\* C20, amended: right after a process start every sample in the buffer is
\* less than MAX_AGE_MS old; the passing of time alone removes nothing from
\* the buffer of a running session.
C20_AgeBoundAtLoad ==
    /\ [][(op'.name = "load" /\ ops' = ops + 1) =>
            \A i \in 1..Len(history') : now' - history'[i].timestamp < MAX_AGE_MS]_vars
    /\ [][ticks' # ticks => history' = history]_vars

\* a process start kept a recent sample and dropped one that had reached
\* MAX_AGE_MS (the rewrite of the snapshot failed, so the entry still shows it)
C20_Witness ==
    /\ op.name = "load" /\ op.r = "ok" /\ op.w = "throw"
    /\ Len(history) >= 1
    /\ \E i \in 1..Len(StoredPoints(storage)) :
           now - StoredPoints(storage)[i].timestamp >= MAX_AGE_MS

\* C21 as stated: in every reachable state the timestamps of the buffer are
\* strictly increasing along the buffer.
C21_Chronological ==
    \A i \in 1..Len(history) : \A j \in 1..Len(history) :
        i < j => history[i].timestamp < history[j].timestamp

\* C22 as stated: after an accepted record whose write succeeded, the stored
\* snapshot parses to the buffer and a process start at that moment loads the
\* same sequence of samples.
C22_SnapshotRoundTrip ==
    (op.name = "record" /\ op.added /\ op.w = "ok") =>
        /\ storage.kind = "json"
        /\ JSONparse(storage) = history
        /\ loadInitialState(storage, now, "ok").history = history

\* C22, amended: after an accepted record whose write succeeded, the stored
\* snapshot parses to the buffer, and a process start at that moment loads
\* the samples of the buffer that are less than MAX_AGE_MS old, in order.
C22_SnapshotIsBuffer ==
    (op.name = "record" /\ op.added /\ op.w = "ok") =>
        /\ storage.kind = "json"
        /\ JSONparse(storage) = history
        /\ loadInitialState(storage, now, "ok").history =
               SelectSeq(history, LAMBDA p : now - p.timestamp < MAX_AGE_MS)

\* a sample was accepted and written into a buffer that still holds a sample
\* older than MAX_AGE_MS
C22_Witness ==
    /\ op.name = "record" /\ op.added /\ op.w = "ok"
    /\ Len(history) >= 2
    /\ now - history[1].timestamp > MAX_AGE_MS
    /\ JSONparse(storage) = history

\* C26 as stated: in every reachable state adjacent samples of the buffer are
\* at least SAMPLE_INTERVAL_MS apart.
C26_AdjacentSpacing ==
    \A i \in 1..(Len(history) - 1) :
        history[i + 1].timestamp - history[i].timestamp >= SAMPLE_INTERVAL_MS

\* ---------------------------------------------------------------------------
\* Aggregating Fetcher: fetchWithTimeout and fetchAllClientChannels
\* ---------------------------------------------------------------------------
\* How one HTTP request ends: a 2xx response with a JSON body, a non-2xx
\* response, a rejected fetch (connection refused), the AbortSignal.timeout
\* firing, or a 2xx response whose body response.json() cannot parse.
RequestOutcomes == {"ok", "http_error", "network_error", "timeout", "bad_json"}

RequestFailures == RequestOutcomes \ {"ok"}

\* fetchWithTimeout<T>(url): the parsed body, or a thrown error
fetchWithTimeout(o, body) ==
    IF o = "ok" THEN [kind |-> "value", value |-> body] ELSE [kind |-> "throw"]

Pending == [kind |-> "pending"]

Null == [kind |-> "null"]

Rejected == [kind |-> "rejected"]

NoBody == [kind |-> "nobody"]

\* a channel record as the backend serves it
ChannelRecord(id, acc, sub) ==
    [channel_id |-> id, shares_accepted |-> acc, shares_submitted |-> sub]

\* ClientChannelsResponse bodies a backend can serve; the second standard
\* channel reports more accepted than submitted shares, and total_* counts
\* all channels of the client, which may exceed the page returned
DetailBodies ==
    { [kind |-> "response", total_extended |-> 1, total_standard |-> 1,
       extended_channels |-> <<ChannelRecord(1, 80, 100)>>,
       standard_channels |-> <<ChannelRecord(2, 5, 3)>>],
      [kind |-> "response", total_extended |-> 3, total_standard |-> 0,
       extended_channels |-> <<ChannelRecord(1, 80, 100), ChannelRecord(3, 0, 0)>>,
       standard_channels |-> <<>>],
      [kind |-> "response", total_extended |-> 0, total_standard |-> 0,
       extended_channels |-> <<>>, standard_channels |-> <<>>] }

\* ClientsResponse.items with n clients
ClientList(n) == [i \in 1..n |-> [client_id |-> i]]

\* the literal a fetch over an empty item list yields, a slip in one count
EmptyAggregate_Slip ==
    [total_extended |-> 0, total_standard |-> 1,
     extended_channels |-> <<>>, standard_channels |-> <<>>]

\* the literal returned for an empty item list, and the accumulator's start
EmptyAggregate ==
    [total_extended |-> 0, total_standard |-> 0,
     extended_channels |-> <<>>, standard_channels |-> <<>>]

\* a detail request without .catch(() => null)
DetailLeg_NoCatch(o, body) ==
    LET r == fetchWithTimeout(o, body)
    IN  IF r.kind = "throw" THEN Rejected ELSE r.value

\* fetchWithTimeout(.../clients/{id}/channels...).catch(() => null)
DetailLeg(o, body) ==
    LET r == fetchWithTimeout(o, body)
    IN  IF r.kind = "throw" THEN Null ELSE r.value

\* the loop body: if (result) { totals +=, channels.push(...) }
Merge(agg, res) ==
    IF res.kind = "response"
    THEN [total_extended    |-> agg.total_extended + res.total_extended,
          total_standard    |-> agg.total_standard + res.total_standard,
          extended_channels |-> agg.extended_channels \o res.extended_channels,
          standard_channels |-> agg.standard_channels \o res.standard_channels]
    ELSE agg

RECURSIVE AggregateFrom(_, _, _)
AggregateFrom(results, k, agg) ==
    IF k > Len(results) THEN agg
    ELSE AggregateFrom(results, k + 1, Merge(agg, results[k]))

RECURSIVE AggregateUntilNull(_, _, _)
AggregateUntilNull(results, k, agg) ==
    IF k > Len(results) \/ results[k].kind # "response" THEN agg
    ELSE AggregateUntilNull(results, k + 1, Merge(agg, results[k]))

\* the aggregation loop leaving at the first failed leg instead of skipping it
Aggregate_StopAtNull(results) == AggregateUntilNull(results, 1, EmptyAggregate)

\* for (const result of channelResults) { ... } over the results in item order
Aggregate(results) == AggregateFrom(results, 1, EmptyAggregate)

\* the results collected in the order the requests settled
PromiseAll_SettleOrder(results, order) ==
    [k \in 1..Len(order) |-> results[order[k]]]

\* const channelResults = await Promise.all(channelPromises): the values in
\* the order of the promises, whatever the order in which they settled
PromiseAll(results, order) == results

\* the history store stays at rest while the fetcher runs
HQuiet ==
    /\ now = StartTime
    /\ ticks = 0
    /\ ops = 0
    /\ phase = "unloaded"
    /\ history = <<>>
    /\ lastSampleTime = 0
    /\ storage = Absent
    /\ accepted = 0
    /\ session = {}
    /\ raised = FALSE
    /\ op = NoOp

FInit == HQuiet /\ FIdle /\ PQuiet

\* fetchAllClientChannels(baseUrl) is called: the /clients request goes out
FetchStart ==
    /\ fpc = "idle"
    /\ fpc' = "list"
    /\ UNCHANGED <<listOutcome, items, legs, legOutcome, settleOrder,
                   detailRequests, result>>
    /\ UNCHANGED notFetch

\* The /clients request settles with outcome o and, when it succeeds, n items.
\* A failure rejects the call; an empty list resolves it at once; otherwise
\* one detail request per item is issued.
ListSettles(o, n) ==
    /\ fpc = "list"
    /\ listOutcome' = o
    /\ LET r == fetchWithTimeout(o, [items |-> ClientList(n)])
       IN  IF r.kind = "throw"
           THEN /\ fpc' = "rejected"
                /\ UNCHANGED <<items, legs, legOutcome, detailRequests, result>>
           ELSE IF Len(r.value.items) = 0
           THEN /\ fpc' = "resolved"
                /\ result' = [kind |-> "value", value |-> EmptyAggregate]
                /\ items' = r.value.items
                /\ UNCHANGED <<legs, legOutcome, detailRequests>>
           ELSE /\ fpc' = "details"
                /\ items' = r.value.items
                /\ legs' = [i \in 1..Len(r.value.items) |-> Pending]
                /\ legOutcome' = [i \in 1..Len(r.value.items) |->
                                    [outcome |-> "none", body |-> NoBody]]
                /\ detailRequests' = {r.value.items[i].client_id :
                                        i \in 1..Len(r.value.items)}
                /\ UNCHANGED result
    /\ UNCHANGED settleOrder
    /\ UNCHANGED notFetch

\* The detail request of item i settles with outcome o (body when it
\* succeeds).  Promise.all rejects on a rejected leg and resolves once every
\* leg has settled; the aggregation loop then runs to the end.
DetailSettles(i, o, body) ==
    /\ fpc = "details"
    /\ i \in 1..Len(legs)
    /\ legs[i] = Pending
    /\ (o = "ok") = (body # NoBody)
    /\ LET leg     == DetailLeg(o, body)
           settled == [legs EXCEPT ![i] = leg]
       IN  /\ legs' = settled
           /\ IF leg = Rejected
              THEN /\ fpc' = "rejected"
                   /\ UNCHANGED result
              ELSE IF \A j \in 1..Len(settled) : settled[j] # Pending
              THEN /\ fpc' = "resolved"
                   /\ result' = [kind |-> "value",
                                 value |-> Aggregate(PromiseAll(settled,
                                               Append(settleOrder, i)))]
              ELSE UNCHANGED <<fpc, result>>
    /\ legOutcome' = [legOutcome EXCEPT ![i] = [outcome |-> o, body |-> body]]
    /\ settleOrder' = Append(settleOrder, i)
    /\ UNCHANGED <<listOutcome, items, detailRequests>>
    /\ UNCHANGED notFetch

\* The next poll cycle (refetchInterval) calls the function again
FetchAgain ==
    /\ fpc \in {"resolved", "rejected"}
    /\ fpc' = "idle"
    /\ listOutcome' = "none"
    /\ items' = <<>>
    /\ legs' = <<>>
    /\ legOutcome' = <<>>
    /\ settleOrder' = <<>>
    /\ detailRequests' = {}
    /\ result' = [kind |-> "none"]
    /\ UNCHANGED notFetch

FNext ==
    \/ FetchStart
    \/ \E o \in RequestOutcomes, n \in 0..MaxItems : ListSettles(o, n)
    \/ \E i \in 1..MaxItems, o \in RequestOutcomes, body \in DetailBodies \cup {NoBody} :
          DetailSettles(i, o, body)
    \/ FetchAgain

SpecFetch == FInit /\ [][FNext]_vars

\* ---------------------------------------------------------------------------
\* Properties of the Aggregating Fetcher
\* ---------------------------------------------------------------------------
\* item indexes whose detail request succeeded
OkLegs == {i \in 1..Len(legOutcome) : legOutcome[i].outcome = "ok"}

RECURSIVE SumOver(_, _)
SumOver(S, field) ==
    IF S = {} THEN 0
    ELSE LET i == CHOOSE x \in S : TRUE
         IN  legOutcome[i].body[field] + SumOver(S \ {i}, field)

RECURSIVE ConcatOver(_, _)
ConcatOver(k, field) ==
    IF k = 0 THEN <<>>
    ELSE ConcatOver(k - 1, field) \o
         (IF k \in OkLegs THEN legOutcome[k].body[field] ELSE <<>>)

\* C6: with n items of which k detail requests failed, the call resolves, and
\* its totals are the sums and its record sequences the concatenation of the
\* bodies of exactly the n-k successful detail responses, records unmodified.
C6_PartialFailure ==
    /\ (fpc = "details") => (\E i \in 1..Len(legs) : legs[i] = Pending)
    /\ (listOutcome = "ok" /\ Len(items) > 0) => fpc \in {"details", "resolved"}
    /\ (fpc = "resolved" /\ Len(items) > 0) =>
         /\ result.kind = "value"
         /\ result.value.total_extended = SumOver(OkLegs, "total_extended")
         /\ result.value.total_standard = SumOver(OkLegs, "total_standard")
         /\ result.value.extended_channels = ConcatOver(Len(items), "extended_channels")
         /\ result.value.standard_channels = ConcatOver(Len(items), "standard_channels")

\* three items, the first detail request failed, and the aggregate carries
\* the two others' records, one of them with more accepted than submitted
C6_Witness ==
    /\ fpc = "resolved" /\ Len(items) = 3
    /\ legOutcome[1].outcome \in RequestFailures
    /\ Cardinality(OkLegs) = 2
    /\ result.value.total_extended = 4
    /\ \E j \in 1..Len(result.value.standard_channels) :
          result.value.standard_channels[j].shares_accepted >
          result.value.standard_channels[j].shares_submitted

\* C7: a fetch whose item list is empty resolves with the zero-valued
\* aggregate and issues no detail request.
C7_EmptyList ==
    (listOutcome = "ok" /\ Len(items) = 0 /\ fpc # "idle") =>
        /\ fpc = "resolved"
        /\ result = [kind |-> "value",
                     value |-> [total_extended |-> 0, total_standard |-> 0,
                                extended_channels |-> <<>>,
                                standard_channels |-> <<>>]]
        /\ detailRequests = {}
        /\ legs = <<>>

\* the list request succeeded with no items and the call has resolved
C7_Witness ==
    listOutcome = "ok" /\ items = <<>> /\ fpc = "resolved"

\* C28: when the call resolves over a non-empty item list, the records of the
\* aggregate are the successful responses' records grouped by item in the
\* order of the item list, whatever the order in which the detail requests
\* settled: the aggregate is determined by the responses alone.
C28_DeterministicOrder ==
    (fpc = "resolved" /\ Len(items) > 0) =>
        /\ Len(settleOrder) = Len(items)
        /\ result.value.extended_channels = ConcatOver(Len(items), "extended_channels")
        /\ result.value.standard_channels = ConcatOver(Len(items), "standard_channels")

\* two items with different records, the second item's request settled first
C28_Witness ==
    /\ fpc = "resolved" /\ Len(items) = 2
    /\ settleOrder = <<2, 1>>
    /\ OkLegs = {1, 2}
    /\ legOutcome[1].body.extended_channels # legOutcome[2].body.extended_channels
    /\ legOutcome[1].body.extended_channels # <<>>
    /\ legOutcome[2].body.extended_channels # <<>>

\* C8: the call rejects exactly when the list request failed or timed out;
\* whatever the detail requests do, it does not reject.
C8_RejectsOnlyOnList ==
    /\ (fpc = "rejected") <=> (listOutcome \in RequestFailures)
    /\ (listOutcome = "ok") => (fpc \in {"details", "resolved"})
    /\ (listOutcome = "ok" /\ \A i \in 1..Len(legs) : legs[i] # Pending)
          => fpc = "resolved"

\* every detail request failed, one by timeout, and the call resolved
C8_Witness ==
    /\ fpc = "resolved" /\ Len(items) = MaxItems
    /\ OkLegs = {}
    /\ \E i \in 1..Len(legOutcome) : legOutcome[i].outcome = "timeout"
    /\ \E i \in 1..Len(legOutcome) : legOutcome[i].outcome = "network_error"

\* ---------------------------------------------------------------------------
\* Mode Selector (detectMode) and Health Prober (useTranslatorHealth,
\* useJdcHealth)
\* ---------------------------------------------------------------------------
\* A backend answers /health with 2xx, answers with another status, refuses
\* the connection, or does not answer within the timeout.
Conditions == {"healthy", "unhealthy", "down", "hung"}

\* await fetch(`${base}/health`, { signal: AbortSignal.timeout(2000) })
ProbeOutcome(c) ==
    CASE c = "healthy"   -> "ok"
      [] c = "unhealthy" -> "http_error"
      [] c = "down"      -> "network_error"
      [] c = "hung"      -> "timeout"

ProbeFailures == {"http_error", "network_error", "timeout"}

\* fetch() itself rejects on a refused connection and on the abort signal
FetchRejects(o) == o \in {"network_error", "timeout"}

\* detectMode probing the translator's /health instead of the JDC's
detectMode_OtherEndpoint(b) ==
    LET o == ProbeOutcome(b["translator"])
    IN  [outcome |-> o,
         result  |-> [kind |-> "value",
                      value |-> IF ~FetchRejects(o) /\ o = "ok"
                                THEN "jdc" ELSE "translator"]]

\* detectMode(): b is the condition of the backends when the probe settles.
\* try { response = await fetch(jdc/health); if (response.ok) return 'jdc' }
\* catch { } return 'translator'
detectMode(b) ==
    LET o == ProbeOutcome(b["jdc"])
    IN  [outcome |-> o,
         result  |-> [kind |-> "value",
                      value |-> IF ~FetchRejects(o) /\ o = "ok"
                                THEN "jdc" ELSE "translator"]]

\* queryFn of useTranslatorHealth / useJdcHealth:
\* const response = await fetch(...); return response.ok;   (no try/catch)
healthQueryFn(o) ==
    IF FetchRejects(o) THEN [kind |-> "throw"]
    ELSE [kind |-> "value", value |-> (o = "ok")]

\* useQuery with retry: false settling a fetch: a returned value becomes the
\* data, a thrown error sets the error status and keeps the data it had
QuerySettled(q, o, r) ==
    [status   |-> IF r.kind = "throw" THEN "error" ELSE "success",
     data     |-> IF r.kind = "throw" THEN q.data ELSE r.value,
     fetching |-> FALSE,
     outcome  |-> o,
     fnResult |-> r]

PInit == HQuiet /\ FIdle /\ PQuiet

\* A backend goes up or down
BackendChanges(b, c) ==
    /\ backend[b] # c
    /\ backend' = [backend EXCEPT ![b] = c]
    /\ UNCHANGED <<dpc, dOutcome, dResult, hq>>
    /\ UNCHANGED notProbe

\* useStackMode runs its queryFn: on mount and every 30 s afterwards
DetectStart ==
    /\ dpc \in {"idle", "done"}
    /\ dpc' = "probing"
    /\ UNCHANGED <<backend, dOutcome, dResult, hq>>
    /\ UNCHANGED notProbe

\* the primary probe settles and detectMode returns
DetectSettles ==
    /\ dpc = "probing"
    /\ LET d == detectMode(backend)
       IN  /\ dOutcome' = d.outcome
           /\ dResult' = d.result
    /\ dpc' = "done"
    /\ UNCHANGED <<backend, hq>>
    /\ UNCHANGED notProbe

\* a health query fetches: on mount and every 5 s afterwards
HealthStart(b) ==
    /\ ~hq[b].fetching
    /\ hq' = [hq EXCEPT ![b].fetching = TRUE]
    /\ UNCHANGED <<backend, dpc, dOutcome, dResult>>
    /\ UNCHANGED notProbe

\* the health probe of backend b settles
HealthSettles(b) ==
    /\ hq[b].fetching
    /\ LET o == ProbeOutcome(backend[b])
       IN  hq' = [hq EXCEPT ![b] = QuerySettled(hq[b], o, healthQueryFn(o))]
    /\ UNCHANGED <<backend, dpc, dOutcome, dResult>>
    /\ UNCHANGED notProbe

PNext ==
    \/ \E b \in Backends, c \in Conditions : BackendChanges(b, c)
    \/ DetectStart
    \/ DetectSettles
    \/ \E b \in Backends : HealthStart(b)
    \/ \E b \in Backends : HealthSettles(b)

SpecProbe == PInit /\ [][PNext]_vars

\* ---------------------------------------------------------------------------
\* Properties of the Mode Selector and the Health Prober
\* ---------------------------------------------------------------------------
\* C9: a completed evaluation returns Primary ('jdc') when the primary probe
\* was healthy and Fallback ('translator') when it was unhealthy, timed out or
\* threw; the result depends on the primary probe only and nothing is raised.
C9_ModeRule ==
    [][(dpc = "probing" /\ dpc' = "done") =>
         /\ dResult'.kind = "value"
         /\ dResult'.value = (IF backend["jdc"] = "healthy" THEN "jdc" ELSE "translator")
         /\ dOutcome' = ProbeOutcome(backend["jdc"])]_vars

\* Fallback was selected on a primary timeout although the fallback is down
C9_Witness ==
    /\ dpc = "done"
    /\ dOutcome = "timeout"
    /\ dResult = [kind |-> "value", value |-> "translator"]
    /\ backend["translator"] = "down"

\* C10 as stated: a health probe that met a network error, a non-2xx status or
\* the timeout yielded the value false and raised nothing.
C10_ProbeFailsSoft ==
    \A b \in Backends :
        hq[b].outcome \in ProbeFailures =>
            /\ hq[b].fnResult = [kind |-> "value", value |-> FALSE]
            /\ hq[b].data = FALSE

\* ---------------------------------------------------------------------------
\* Derived Status Engine: getConnectionState
\* ---------------------------------------------------------------------------
\* getConnectionState testing isError before isLoading
getConnectionState_ErrorFirst(isLoading, isError, isSuccess) ==
    IF isError THEN "error"
    ELSE IF isLoading THEN "connecting"
    ELSE IF isSuccess THEN "connected"
    ELSE "disconnected"

\* getConnectionState(isLoading, isError, isSuccess)
getConnectionState(isLoading, isError, isSuccess) ==
    IF isLoading THEN "connecting"
    ELSE IF isError THEN "error"
    ELSE IF isSuccess THEN "connected"
    ELSE "disconnected"

SInit == HQuiet /\ FIdle /\ PQuiet

\* a component evaluates the connection state of the three flags it holds
Evaluate(l, e, s) ==
    /\ Len(evalLog) < MaxEvals
    /\ evalLog' = Append(evalLog,
                         [isLoading |-> l, isError |-> e, isSuccess |-> s,
                          state |-> getConnectionState(l, e, s)])
    /\ UNCHANGED notStatus

SNext == \E l \in BOOLEAN, e \in BOOLEAN, s \in BOOLEAN : Evaluate(l, e, s)

SpecStatus == SInit /\ [][SNext]_vars

\* the eight rows of the precedence table, <<loading, error, success>>
StatusTable ==
    [t \in BOOLEAN \X BOOLEAN \X BOOLEAN |->
        CASE t = <<TRUE,  TRUE,  TRUE >> -> "connecting"
          [] t = <<TRUE,  TRUE,  FALSE>> -> "connecting"
          [] t = <<TRUE,  FALSE, TRUE >> -> "connecting"
          [] t = <<TRUE,  FALSE, FALSE>> -> "connecting"
          [] t = <<FALSE, TRUE,  TRUE >> -> "error"
          [] t = <<FALSE, TRUE,  FALSE>> -> "error"
          [] t = <<FALSE, FALSE, TRUE >> -> "connected"
          [] t = <<FALSE, FALSE, FALSE>> -> "disconnected"]

\* C11: for all eight combinations of (isLoading, isError, isSuccess) the
\* result is Connecting if loading, else Error if error, else Connected if
\* success, else Disconnected.
C11_Precedence ==
    \A i \in 1..Len(evalLog) :
        evalLog[i].state =
            StatusTable[<<evalLog[i].isLoading, evalLog[i].isError, evalLog[i].isSuccess>>]

\* (true, true, true) was evaluated to Connecting and (false, false, false) to
\* Disconnected
C11_Witness ==
    /\ \E i \in 1..Len(evalLog) :
          evalLog[i] = [isLoading |-> TRUE, isError |-> TRUE, isSuccess |-> TRUE,
                        state |-> "connecting"]
    /\ \E i \in 1..Len(evalLog) :
          evalLog[i] = [isLoading |-> FALSE, isError |-> FALSE, isSuccess |-> FALSE,
                        state |-> "disconnected"]

\* ---------------------------------------------------------------------------
\* Shell banner and the dashboard's no-services state, derived from the two
\* health queries
\* ---------------------------------------------------------------------------
\* useQuery's isLoading: no data yet and a fetch in flight
QueryIsLoading(q) == q.status = "pending" /\ q.fetching

\* JavaScript truthiness of a health query's data (undefined | false | true);
\* compared through ToString because undefined is modelled as a string
Truthy(d) == ToString(d) = "TRUE"

\* Shell: const isLoading = translatorLoading && jdcLoading
ShellIsLoading == QueryIsLoading(hq["translator"]) /\ QueryIsLoading(hq["jdc"])

\* Shell: const isSuccess = Boolean(translatorOk || jdcOk)
ShellIsSuccess == Truthy(hq["translator"].data) \/ Truthy(hq["jdc"].data)

\* isError computed without looking at isLoading
ShellIsError_NoLoadingGuard == ~ShellIsSuccess

\* Shell: const isError = !isLoading && !isSuccess
ShellIsError == ~ShellIsLoading /\ ~ShellIsSuccess

\* Shell: getConnectionState(isLoading, isError, isSuccess)
ShellBanner == getConnectionState(ShellIsLoading, ShellIsError, ShellIsSuccess)

\* UnifiedDashboard: !translatorOk && !jdcOk && !translatorLoading && !jdcLoading
noServicesConnected ==
    /\ ~Truthy(hq["translator"].data)
    /\ ~Truthy(hq["jdc"].data)
    /\ ~QueryIsLoading(hq["translator"])
    /\ ~QueryIsLoading(hq["jdc"])

\* both health probes have settled at least once
ProbesSettled == \A b \in Backends : hq[b].outcome # "none"

\* C12 as stated: once the probes have settled, the banner is Connected
\* exactly when the most recent probe of at least one backend was healthy.
C12_BannerOrRule ==
    ProbesSettled =>
        ((ShellBanner = "connected") <=> (\E b \in Backends : hq[b].outcome = "ok"))

\* C13 as stated: once the probes have settled, the no-services state is
\* surfaced exactly when the most recent probe of neither backend was healthy.
C13_NoServices ==
    ProbesSettled =>
        (noServicesConnected <=> (\A b \in Backends : hq[b].outcome \in ProbeFailures))

\* the mode the dashboard reads from useStackMode (undefined before the first
\* detectMode call has returned)
DashMode == IF dResult.kind = "value" THEN dResult.value ELSE "undefined"

\* usePoolData: isJdMode: mode === 'jdc'
DashIsJdMode == DashMode = "jdc"

\* UnifiedDashboard: xOk === true && !xHealthError
ServiceHealthy(b) == Truthy(hq[b].data) /\ hq[b].status # "error"

\* UnifiedDashboard: translatorDown = !translatorHealthLoading && !translatorHealthy
translatorDown == ~QueryIsLoading(hq["translator"]) /\ ~ServiceHealthy("translator")

\* UnifiedDashboard: jdcDown = !jdcHealthLoading && isJdMode && !jdcHealthy
jdcDown == ~QueryIsLoading(hq["jdc"]) /\ DashIsJdMode /\ ~ServiceHealthy("jdc")

\* the down state the dashboard derives for a service
ServiceDown(b) == IF b = "jdc" THEN jdcDown ELSE translatorDown

\* C25 as stated: each backend has at most one health probe in flight (one
\* query per backend, shared by the Shell and the page), and a service whose
\* most recent probe settled as not healthy has its own down state surfaced,
\* whatever the other service's state.
C25_OwnDownState ==
    \A b \in Backends :
        hq[b].outcome \in ProbeFailures => ServiceDown(b)

\* C29: in every state of the two health queries exactly one of the Shell's
\* isLoading, isError and isSuccess holds, and the banner is connecting,
\* error or connected accordingly, never disconnected.
C29_ShellInputsExclusive ==
    /\ ShellIsLoading \/ ShellIsError \/ ShellIsSuccess
    /\ ~(ShellIsLoading /\ ShellIsError)
    /\ ~(ShellIsLoading /\ ShellIsSuccess)
    /\ ~(ShellIsError /\ ShellIsSuccess)
    /\ ShellBanner # "disconnected"
    /\ ShellBanner =
          (IF ShellIsLoading THEN "connecting"
           ELSE IF ShellIsSuccess THEN "connected" ELSE "error")

\* one probe has settled as not healthy while the other is still loading: the
\* Shell reports the error state
C29_Witness ==
    /\ QueryIsLoading(hq["translator"])
    /\ hq["jdc"].outcome = "http_error"
    /\ ShellIsError
    /\ ShellBanner = "error"

\* ---------------------------------------------------------------------------
\* Mode cache: useStackMode as a cached query with staleTime and
\* refetchInterval, read by several consumers
\* ---------------------------------------------------------------------------
\* clock advances: half a staleness window (not limited), 1 ms and one
\* millisecond short of the window (limited by MaxFine)
CoarseSteps == {STALE_TIME \div 2}

FineSteps == {1, STALE_TIME - 1}

\* staleTime left at its default of 0: every entry is stale at once
isStale_NoWindow(q) == TRUE

\* staleTime: 30000 -- an entry is stale without data or once its data is
\* STALE_TIME old
isStale(q) == q.data = "undefined" \/ q.age >= STALE_TIME

\* every update of a cache entry restarts the refetchInterval of its mounted
\* observers
ResetTimers(k, tm, mnt) ==
    [c \in Consumers |->
        IF c \in mnt /\ ModeQueryKey(c) = k THEN MODE_REFETCH_INTERVAL ELSE tm[c]]

\* the time until the next refetch interval fires (a window if none is set)
NextDeadline ==
    IF mounted = {} THEN STALE_TIME
    ELSE CHOOSE d \in {timer[c] : c \in mounted} : \A c \in mounted : d <= timer[c]

MInit == HQuiet /\ FIdle /\ PQuiet

\* A page mounts: its useStackMode subscribes to the entry and fetches when
\* the entry is stale, joining a fetch that is already in flight
Mount(c) ==
    /\ c \notin mounted
    /\ mounted' = mounted \cup {c}
    /\ LET k == ModeQueryKey(c)
       IN  IF isStale(queries[k]) /\ ~queries[k].fetching
           THEN /\ queries' = [queries EXCEPT ![k].fetching = TRUE]
                /\ timer' = ResetTimers(k, timer, mounted')
           ELSE /\ queries' = queries
                /\ timer' = [timer EXCEPT ![c] = MODE_REFETCH_INTERVAL]
    /\ UNCHANGED <<fine, backend>>
    /\ UNCHANGED notMode

\* A page unmounts: its interval is cleared, the entry stays in the cache
Unmount(c) ==
    /\ c \in mounted
    /\ mounted' = mounted \ {c}
    /\ timer' = [timer EXCEPT ![c] = 0]
    /\ UNCHANGED <<queries, fine, backend>>
    /\ UNCHANGED notMode

\* refetchInterval: 30000 fires for one consumer: it fetches, joining a fetch
\* that is already in flight
TimerFires(c) ==
    /\ c \in mounted
    /\ timer[c] = 0
    /\ LET k == ModeQueryKey(c)
       IN  IF ~queries[k].fetching
           THEN /\ queries' = [queries EXCEPT ![k].fetching = TRUE]
                /\ timer' = ResetTimers(k, timer, mounted)
           ELSE /\ queries' = queries
                /\ timer' = [timer EXCEPT ![c] = MODE_REFETCH_INTERVAL]
    /\ UNCHANGED <<mounted, fine, backend>>
    /\ UNCHANGED notMode

\* detectMode settles: its value replaces the cached selection
ModeSettles(k) ==
    /\ queries[k].fetching
    /\ queries' = [queries EXCEPT ![k] =
                      [data     |-> detectMode(backend).result.value,
                       prev     |-> queries[k].data,
                       fetching |-> FALSE,
                       age      |-> 0]]
    /\ timer' = ResetTimers(k, timer, mounted)
    /\ UNCHANGED <<mounted, fine, backend>>
    /\ UNCHANGED notMode

\* Time passes, up to the moment the next interval fires
Advance(d) ==
    /\ d \in FineSteps => fine < MaxFine
    /\ LET delta == Min(d, NextDeadline)
       IN  /\ delta > 0
           /\ queries' = [k \in ModeQueryKeys |->
                            IF queries[k].data = "undefined" THEN queries[k]
                            ELSE [queries[k] EXCEPT
                                     !.age = Min(queries[k].age + delta, STALE_TIME)]]
           /\ timer' = [c \in Consumers |->
                            IF c \in mounted THEN timer[c] - delta ELSE timer[c]]
    /\ fine' = IF d \in FineSteps THEN fine + 1 ELSE fine
    /\ UNCHANGED <<mounted, backend>>
    /\ UNCHANGED notMode

\* The primary backend goes up or down
PrimaryChanges(c) == BackendChanges("jdc", c)

MNext ==
    \/ \E c \in Consumers : Mount(c)
    \/ \E c \in Consumers : Unmount(c)
    \/ \E c \in Consumers : TimerFires(c)
    \/ \E k \in ModeQueryKeys : ModeSettles(k)
    \/ \E d \in CoarseSteps \cup FineSteps : Advance(d)
    \/ \E c \in Conditions : PrimaryChanges(c)

SpecMode == MInit /\ [][MNext]_vars

\* time passes, a due interval fires and a probe settles (at the latest when
\* its 2000 ms timeout aborts it)
SpecModeLive ==
    /\ SpecMode
    /\ WF_vars(\E d \in CoarseSteps \cup FineSteps : Advance(d))
    /\ WF_vars(\E c \in Consumers : TimerFires(c))
    /\ WF_vars(\E k \in ModeQueryKeys : ModeSettles(k))

\* the cache entry behind useStackMode
ModeQuery == queries["stack-mode"]

\* the mode a probe of the primary selects while the primary stays as it is
ExpectedMode == IF backend["jdc"] = "healthy" THEN "jdc" ELSE "translator"

\* C14: a probe of the primary starts only when there is no cached selection
\* or the cached one is 30 s old; while a consumer is mounted again and again,
\* a selection that has become 30 s old is replaced by a new one, and once the
\* primary's health stays constant the cached mode eventually stays jdc when
\* it is healthy and translator when it is not.
C14_ModeStaleness ==
    /\ [][(\E k \in ModeQueryKeys : ~queries[k].fetching /\ queries'[k].fetching)
            => (ModeQuery.data = "undefined" \/ ModeQuery.age >= STALE_TIME)]_vars
    /\ ([]<>(mounted # {})) =>
          ((ModeQuery.data # "undefined" /\ ModeQuery.age >= STALE_TIME)
              ~> (ModeQuery.age = 0 /\ ~ModeQuery.fetching))
    /\ \A c \in Conditions :
          (([]<>(mounted # {})) /\ <>[](backend["jdc"] = c))
              => <>[](backend["jdc"] = c /\ ModeQuery.data = ExpectedMode)

\* a re-evaluation has just replaced a cached translator selection by jdc
C14_Witness ==
    /\ ModeQuery.prev = "translator"
    /\ ModeQuery.data = "jdc"
    /\ ModeQuery.age = 0
    /\ mounted # {}

\* C15: at most one mode probe is in flight at any time, and all mounted
\* consumers read the same cache entry, so they see the same in-flight state
\* and the same selection.
C15_ModeDedup ==
    /\ Cardinality({k \in ModeQueryKeys : queries[k].fetching}) <= 1
    /\ \A c1 \in mounted : \A c2 \in mounted :
           queries[ModeQueryKey(c1)] = queries[ModeQueryKey(c2)]

\* all three consumers are mounted while the one evaluation is in flight
C15_Witness ==
    /\ mounted = Consumers
    /\ ModeQuery.fetching

\* ---------------------------------------------------------------------------
\* Polling Scheduler: usePoolData and useSv1ClientsData
\* ---------------------------------------------------------------------------
\* how one poll cycle's request ends
PollOutcomes == {"ok", "fail"}

\* getEndpoints(): the labels of the two backends
EndpointLabel == [b \in Backends |-> IF b = "jdc" THEN "JD Client" ELSE "Translator"]

\* useQuery's isLoading of the mode query: no data yet and a fetch in flight
ModeLoading(mq) == mq.data = "undefined" /\ mq.fetching

\* the three data queries enabled whatever the mode query says
PoolEnabled_Always(mq) == TRUE

\* enabled: !modeLoading && !!mode
PoolEnabled(mq) == ~ModeLoading(mq) /\ mq.data # "undefined"

\* useSv1ClientsData sets no enabled option
StreamEnabled(s, mq) == IF s \in PoolStreams THEN PoolEnabled(mq) ELSE TRUE

\* const baseUrl = mode === 'jdc' ? endpoints.jdc.base : endpoints.translator.base
baseUrl(mode) == IF mode = "jdc" THEN "jdc" ELSE "translator"

\* the request a stream's queryFn issues first, for the mode of its render
FirstRequest(s, mode) ==
    CASE s = "pool-global"     -> <<"/global", baseUrl(mode)>>
      [] s = "server-channels" -> <<"/server/channels", baseUrl(mode)>>
      [] s = "client-channels" -> <<"/clients", baseUrl(mode)>>
      [] s = "sv1-clients"     -> <<"/sv1/clients", "translator">>

\* fetchAllClientChannels(baseUrl): the detail requests that follow a
\* non-empty client list
FollowUpRequests(k, o) ==
    IF k[1] = "client-channels" /\ o = "ok"
    THEN {<<"/clients/{id}/channels", baseUrl(k[2])>>}
    ELSE {}

\* the next cycle after a failed one waits twice as long
NextCycleDelay_Backoff(o) ==
    IF o = "fail" THEN 2 * DATA_REFETCH_INTERVAL ELSE DATA_REFETCH_INTERVAL

\* refetchInterval: 3000, a number, whatever the last cycle's outcome
NextCycleDelay(o) == DATA_REFETCH_INTERVAL

\* the streams a render starts fetching: enabled ones whose entry for the
\* render's query key has neither data nor a fetch in flight
ToStart(st, mq) ==
    {s \in Streams :
        /\ StreamEnabled(s, mq)
        /\ st[CurrentKey(s, mq.data)].status = "pending"
        /\ ~st[CurrentKey(s, mq.data)].fetching}

\* the base URL a stream's queryFn fetches from, for the mode of its render
StreamBase(s, mode) == FirstRequest(s, mode)[2]

StartFetches(st, mq, ss) ==
    [k \in StreamKeys |->
        IF \E s \in ss : k = CurrentKey(s, mq.data)
        THEN [st[k] EXCEPT !.fetching = TRUE, !.from = StreamBase(k[1], mq.data)]
        ELSE st[k]]

QInit == HQuiet /\ FIdle /\ PQuiet

\* The dashboard mounts: useStackMode fetches if it has no selection yet, and
\* every enabled stream without data starts its first fetch
PollMount ==
    /\ mounted = {}
    /\ mounted' = {"Dashboard"}
    /\ LET mq == IF ModeQuery.data = "undefined"
                 THEN [ModeQuery EXCEPT !.fetching = TRUE] ELSE ModeQuery
           ss == ToStart(streams, mq)
       IN  /\ queries' = [queries EXCEPT !["stack-mode"] = mq]
           /\ streams' = StartFetches(streams, mq, ss)
           /\ requests' = requests \cup {FirstRequest(s, mq.data) : s \in ss}
    /\ UNCHANGED <<cycles, backend>>
    /\ UNCHANGED notPoll

\* The dashboard unmounts: its intervals are cleared, fetches in flight go on
PollUnmount ==
    /\ mounted # {}
    /\ mounted' = {}
    /\ UNCHANGED <<queries, streams, requests, cycles, backend>>
    /\ UNCHANGED notPoll

\* useStackMode re-checks a selection it already has
ModeRefetch ==
    /\ mounted # {}
    /\ ModeQuery.data # "undefined"
    /\ ~ModeQuery.fetching
    /\ queries' = [queries EXCEPT !["stack-mode"].fetching = TRUE]
    /\ UNCHANGED <<mounted, streams, requests, cycles, backend>>
    /\ UNCHANGED notPoll

\* detectMode settles; a mounted usePoolData renders with the new mode and
\* the streams of the new query keys start fetching
PollModeSettles ==
    /\ ModeQuery.fetching
    /\ LET mq == [data     |-> detectMode(backend).result.value,
                  prev     |-> ModeQuery.data,
                  fetching |-> FALSE,
                  age      |-> 0]
           ss == IF mounted = {} THEN {} ELSE ToStart(streams, mq)
       IN  /\ queries' = [queries EXCEPT !["stack-mode"] = mq]
           /\ streams' = StartFetches(streams, mq, ss)
           /\ requests' = requests \cup {FirstRequest(s, mq.data) : s \in ss}
    /\ UNCHANGED <<mounted, cycles, backend>>
    /\ UNCHANGED notPoll

\* refetchInterval fires for a stream of the mounted dashboard
PollFires(s) ==
    /\ mounted # {}
    /\ StreamEnabled(s, ModeQuery)
    /\ LET k == CurrentKey(s, ModeQuery.data)
       IN  /\ ~streams[k].fetching
           /\ streams[k].status # "pending"
           /\ streams' = [streams EXCEPT ![k].fetching = TRUE,
                                         ![k].from = StreamBase(s, ModeQuery.data)]
    /\ requests' = requests \cup {FirstRequest(s, ModeQuery.data)}
    /\ UNCHANGED <<queries, mounted, cycles, backend>>
    /\ UNCHANGED notPoll

\* The request of a stream's fetch settles: a failure is retried while the
\* retry count allows, otherwise the cycle ends in success or error and the
\* next one is due after the refetch interval
StreamSettles(k, o) ==
    /\ streams[k].fetching
    /\ cycles < MaxCycles
    /\ cycles' = cycles + 1
    /\ streams' = [streams EXCEPT ![k] =
          IF o = "fail" /\ streams[k].failureCount < DefaultRetry
          THEN [streams[k] EXCEPT !.failureCount = @ + 1, !.outcome = o]
          ELSE [status       |-> IF o = "ok" THEN "success" ELSE "error",
                fetching     |-> FALSE,
                outcome      |-> o,
                failureCount |-> 0,
                due          |-> NextCycleDelay(o),
                from         |-> "none",
                source       |-> IF o = "ok" THEN streams[k].from
                                 ELSE streams[k].source]]
    /\ requests' = requests \cup FollowUpRequests(k, o)
    /\ UNCHANGED <<queries, mounted, backend>>
    /\ UNCHANGED notPoll

QNext ==
    \/ PollMount
    \/ PollUnmount
    \/ ModeRefetch
    \/ PollModeSettles
    \/ \E s \in Streams : PollFires(s)
    \/ \E k \in StreamKeys, o \in PollOutcomes : StreamSettles(k, o)
    \/ \E c \in Conditions : PrimaryChanges(c)

SpecPoll == QInit /\ [][QNext]_vars

\* the paths of the three gated streams
PoolPaths == {"/global", "/server/channels", "/clients", "/clients/{id}/channels"}

\* C16: while the mode is unresolved no request has been issued for the three
\* pool streams and none of their entries is fetching; whenever the dashboard
\* is mounted and the mode is resolved, each pool stream of the current mode
\* is fetching or has completed a cycle, however that state was reached.
C16_PollingGate ==
    /\ ModeQuery.data = "undefined" =>
          /\ \A r \in requests : r[1] \notin PoolPaths
          /\ \A s \in PoolStreams, m \in {"undefined", "jdc", "translator"} :
                 streams[CurrentKey(s, m)] = FreshStream
    /\ \A s \in PoolStreams : streams[CurrentKey(s, "undefined")] = FreshStream
    /\ (mounted # {} /\ ModeQuery.data # "undefined") =>
          \A s \in PoolStreams :
              \/ streams[CurrentKey(s, ModeQuery.data)].fetching
              \/ streams[CurrentKey(s, ModeQuery.data)].status # "pending"

\* the mode was re-evaluated from translator to jdc and the three pool streams
\* of the new mode have their first fetch in flight
C16_Witness ==
    /\ mounted # {}
    /\ ModeQuery.data = "jdc" /\ ModeQuery.prev = "translator"
    /\ \A s \in PoolStreams :
           /\ streams[CurrentKey(s, "jdc")].fetching
           /\ streams[CurrentKey(s, "jdc")].status = "pending"
           /\ \/ streams[CurrentKey(s, "translator")].fetching
              \/ streams[CurrentKey(s, "translator")].status # "pending"

\* C17: a failed cycle leaves the stream in the error state, a successful one
\* in the success state, and either way the next cycle is due after
\* DATA_REFETCH_INTERVAL; a stream in the error state can fire its next cycle.
C17_PollingSurvivesFailure ==
    \A s \in Streams :
        LET e == streams[CurrentKey(s, ModeQuery.data)]
        IN  /\ e.outcome = "fail" =>
                  (e.status = "error" /\ e.due = DATA_REFETCH_INTERVAL)
            /\ e.outcome = "ok" =>
                  (e.status = "success" /\ e.due = DATA_REFETCH_INTERVAL)
            /\ (mounted # {} /\ StreamEnabled(s, ModeQuery)
                    /\ e.status = "error" /\ ~e.fetching)
                  => ENABLED PollFires(s)

\* the global stream failed a cycle, its next cycle is in flight, and the
\* sv1-clients stream failed its first cycle
C17_Witness ==
    /\ ModeQuery.data = "jdc"
    /\ streams[CurrentKey("pool-global", "jdc")].status = "error"
    /\ streams[CurrentKey("pool-global", "jdc")].fetching
    /\ streams[CurrentKey("sv1-clients", "jdc")].status = "error"

\* what usePoolData returns
PoolMode == ModeQuery.data

\* modeLabel: mode === 'jdc' ? endpoints.jdc.label : endpoints.translator.label
PoolModeLabel == IF PoolMode = "jdc" THEN EndpointLabel["jdc"] ELSE EndpointLabel["translator"]

\* isJdMode: mode === 'jdc'
PoolIsJdMode == PoolMode = "jdc"

\* isLoading: modeLoading || globalQuery.isLoading
PoolIsLoading ==
    \/ ModeLoading(ModeQuery)
    \/ LET g == streams[CurrentKey("pool-global", PoolMode)]
       IN  g.status = "pending" /\ g.fetching

\* C18 as stated: until the first mode evaluation completes, a mounted
\* usePoolData reports isLoading and presents neither backend as selected
\* through mode, modeLabel or isJdMode.
C18_PendingBeforeResolution ==
    (mounted # {} /\ ModeQuery.data = "undefined") =>
        /\ PoolIsLoading
        /\ PoolMode \notin Backends
        /\ ~PoolIsJdMode
        /\ \A b \in Backends : PoolModeLabel # EndpointLabel[b]

\* C19 as stated: every /clients and /clients/{id}/channels request targets
\* the JDC base URL and every /sv1/clients request the Translator base URL.
C19_BackendSpecificEndpoints ==
    \A r \in requests :
        /\ r[1] \in {"/clients", "/clients/{id}/channels"} => r[2] = "jdc"
        /\ r[1] = "/sv1/clients" => r[2] = "translator"

\* isError: globalQuery.isError
PoolIsError == streams[CurrentKey("pool-global", PoolMode)].status = "error"

\* the error booleans of the object usePoolData returns, by the stream whose
\* query they read: isError is the only one
PoolErrorFlags == [s \in {"pool-global"} |-> PoolIsError]

\* C24 as stated: for each of the three pool streams, a poll cycle of the
\* current mode that ended in failure sets an error boolean that usePoolData
\* returns to its consumers.
C24_PerStreamFailure ==
    \A s \in PoolStreams :
        streams[CurrentKey(s, PoolMode)].status = "error" =>
            /\ s \in DOMAIN PoolErrorFlags
            /\ PoolErrorFlags[s]

\* global, serverChannels, clientChannels: the data of the queries under the
\* query keys of the render's mode
PoolData(s) == streams[CurrentKey(s, PoolMode)]

\* every entry's data came from the base URL of its query key's mode, and a
\* fetch in flight for the selected mode's key was sent to that mode's base URL
SourceMatchesMode ==
    \A s \in PoolStreams :
        /\ PoolData(s).source \in {"none", baseUrl(PoolMode)}
        /\ PoolData(s).fetching => PoolData(s).from = baseUrl(PoolMode)
        /\ \A m \in Backends :
               streams[CurrentKey(s, m)].source \in {"none", baseUrl(m)}

\* a response that settles for a query key other than the selected mode's
\* leaves what usePoolData exposes as it was
LateResponseHidden ==
    \A s \in PoolStreams, m \in Backends :
        (/\ CurrentKey(s, m) # CurrentKey(s, PoolMode)
         /\ streams[CurrentKey(s, m)].fetching
         /\ ~streams'[CurrentKey(s, m)].fetching)
            => /\ PoolMode' = PoolMode
               /\ \A t \in PoolStreams :
                      streams'[CurrentKey(t, PoolMode)] = PoolData(t)

\* C27: whatever pool data usePoolData exposes while mode M is selected came
\* from the base URL of M; a response of the previously selected backend that
\* settles after a mode switch goes into the entry of its own query key and
\* changes nothing of what is exposed under M.
C27_NoCrossMode == []SourceMatchesMode /\ [][LateResponseHidden]_vars

\* the mode switched from translator to jdc while the translator's /global
\* request was in flight: the jdc's data is exposed, fetched from the jdc,
\* and the translator's response is still to arrive
C27_Witness ==
    /\ PoolMode = "jdc" /\ ModeQuery.prev = "translator"
    /\ PoolData("pool-global").source = "jdc"
    /\ streams[CurrentKey("pool-global", "translator")].fetching
    /\ streams[CurrentKey("pool-global", "translator")].from = "translator"
    /\ ENABLED StreamSettles(CurrentKey("pool-global", "translator"), "ok")

\* ---------------------------------------------------------------------------
\* Share statistics: shareStats / stats and acceptanceRate of the pages
\* ---------------------------------------------------------------------------
\* server channels as a backend reports them: all accepted, more accepted
\* than submitted, and a ratio that falls on a rounding tie (0.125 %)
RateChannels ==
    {ChannelRecord(1, 80, 100), ChannelRecord(2, 5, 3), ChannelRecord(3, 1, 800)}

ChannelSeqs ==
    UNION {[1..n -> RateChannels] : n \in 0..MaxChannels}

\* ServerChannelsResponse bodies
ServerChannelsBodies ==
    {[kind |-> "response", extended_channels |-> e, standard_channels |-> d] :
        e \in ChannelSeqs, d \in ChannelSeqs}

\* channels.reduce((sum, ch) => sum + ch[field], 0)
RECURSIVE ReduceSum(_, _)
ReduceSum(channels, field) ==
    IF channels = <<>> THEN 0
    ELSE channels[1][field] + ReduceSum(Tail(channels), field)

\* the sums taken over the extended channels only
shareStats_ExtendedOnly(sc) ==
    IF sc = Undefined THEN [accepted |-> 0, submitted |-> 0]
    ELSE [accepted  |-> ReduceSum(sc.extended_channels, "shares_accepted"),
          submitted |-> ReduceSum(sc.extended_channels, "shares_submitted")]

\* shareStats (UnifiedDashboard) and stats (PoolStats): the sums of
\* shares_accepted and shares_submitted over extended and standard channels
shareStats(sc) ==
    IF sc = Undefined THEN [accepted |-> 0, submitted |-> 0]
    ELSE [accepted  |-> ReduceSum(sc.extended_channels, "shares_accepted")
                          + ReduceSum(sc.standard_channels, "shares_accepted"),
          submitted |-> ReduceSum(sc.extended_channels, "shares_submitted")
                          + ReduceSum(sc.standard_channels, "shares_submitted")]

\* ((accepted / submitted) * 100).toFixed(2): the decimal string with two
\* fraction digits nearest to the value, the larger one on a tie, as the pair
\* <<integer part, fraction digits>>
toFixed2(acc, sub) ==
    LET n == (2 * acc * 100 * 100 + sub) \div (2 * sub)
    IN  <<n \div 100, n % 100>>

\* UnifiedDashboard: submitted > 0 ? (...).toFixed(2) : null
dashboardRate(st) ==
    IF st.submitted > 0
    THEN [kind |-> "text", text |-> toFixed2(st.accepted, st.submitted)]
    ELSE [kind |-> "null"]

\* PoolStats: sharesSubmitted > 0 ? (...).toFixed(2) : '100.00'
poolStatsRate(st) ==
    IF st.submitted > 0
    THEN [kind |-> "text", text |-> toFixed2(st.accepted, st.submitted)]
    ELSE [kind |-> "text", text |-> <<100, 0>>]

RInit == HQuiet /\ FIdle /\ PQuiet

\* The pages render with the server channels the poll delivered
Render(sc) ==
    /\ serverChannels' = sc
    /\ shareView' = [kind      |-> "rendered",
                     stats     |-> shareStats(sc),
                     dashboard |-> dashboardRate(shareStats(sc)),
                     poolStats |-> poolStatsRate(shareStats(sc))]
    /\ UNCHANGED notRate

RNext == \E sc \in ServerChannelsBodies \cup {Undefined} : Render(sc)

SpecRate == RInit /\ [][RNext]_vars

\* all channels of a response, extended then standard
AllChannels(sc) == sc.extended_channels \o sc.standard_channels

\* the sum of a field over a set of positions of a channel list
RECURSIVE FieldTotal(_, _, _)
FieldTotal(channels, S, field) ==
    IF S = {} THEN 0
    ELSE LET i == CHOOSE x \in S : TRUE
         IN  channels[i][field] + FieldTotal(channels, S \ {i}, field)

TotalAccepted ==
    FieldTotal(AllChannels(serverChannels),
               DOMAIN AllChannels(serverChannels), "shares_accepted")

TotalSubmitted ==
    FieldTotal(AllChannels(serverChannels),
               DOMAIN AllChannels(serverChannels), "shares_submitted")

\* the text <<i, f>> is the value 100 * accepted / submitted to two decimals:
\* within half a hundredth of it
IsRateOf(text, acc, sub) ==
    LET n == text[1] * 100 + text[2]
        d == n * sub - 100 * 100 * acc
    IN  /\ text[2] \in 0..99
        /\ 2 * d <= sub
        /\ 2 * d >= 0 - sub

\* C23: whenever the pages render a response whose total submitted is > 0,
\* the acceptance rate of both pages is 100 * (sum of shares_accepted) /
\* (sum of shares_submitted) over all extended and standard channels, to two
\* decimals; two channels with 80 accepted of 100 submitted each give 80.00.
C23_AcceptanceRate ==
    (shareView.kind = "rendered" /\ serverChannels # Undefined) =>
        /\ TotalSubmitted > 0 =>
              /\ shareView.dashboard.kind = "text"
              /\ IsRateOf(shareView.dashboard.text, TotalAccepted, TotalSubmitted)
              /\ shareView.poolStats = shareView.dashboard
        /\ (TotalAccepted = 160 /\ TotalSubmitted = 200) =>
              shareView.dashboard.text = <<80, 0>>

\* one extended and one standard channel, each with 80 accepted of 100
\* submitted, rendered as 80.00
C23_Witness ==
    /\ shareView.kind = "rendered"
    /\ serverChannels # Undefined
    /\ serverChannels.extended_channels = <<ChannelRecord(1, 80, 100)>>
    /\ serverChannels.standard_channels = <<ChannelRecord(1, 80, 100)>>
    /\ shareView.dashboard = [kind |-> "text", text |-> <<80, 0>>]

\* ---------------------------------------------------------------------------
\* UnifiedDashboard: totalHashrate and useRecordHashrate
\* ---------------------------------------------------------------------------
\* GlobalInfo bodies, by clients.total_hashrate
GlobalBodies ==
    {[kind |-> "response", clients |-> [total_hashrate |-> h]] : h \in Hashrates}

\* Sv1ClientInfo.hashrate: number | null
Sv1Hashrates == {[kind |-> "null"], [kind |-> "number", value |-> 7]}

\* Sv1ClientsResponse bodies: an idle client, a hashing client
Sv1Bodies ==
    {[kind |-> "response", items |-> <<[hashrate |-> h]>>] : h \in Sv1Hashrates}

\* what the hooks can return to a render: translatorOk / jdcOk and their
\* isLoading as "loading" (a probe has no result yet), "some" (a probe
\* answered ok) or "none" (noServicesConnected); the pool queries are disabled until the mode has
\* data, so poolGlobal is undefined while the mode is
DashStates ==
    {d \in [rendered   : {TRUE},
            mode       : {"undefined", "jdc", "translator"},
            poolGlobal : {Undefined} \cup GlobalBodies,
            sv1Data    : {Undefined} \cup Sv1Bodies,
            health     : {"loading", "some", "none"}] :
        d.poolGlobal # Undefined => d.mode # "undefined"}

\* a query that has data keeps data, under the same query key; isLoading is
\* true only before the first result
Follows(d, e) ==
    /\ d.mode # "undefined" => e.mode # "undefined"
    /\ d.sv1Data # Undefined => e.sv1Data # Undefined
    /\ d.health # "loading" => e.health # "loading"
    /\ (d.poolGlobal # Undefined /\ e.mode = d.mode) => e.poolGlobal # Undefined

\* allClients.reduce((sum, c) => sum + (c.hashrate || 0), 0)
RECURSIVE SumHashrates(_)
SumHashrates(allClients) ==
    IF allClients = <<>> THEN 0
    ELSE (IF allClients[1].hashrate.kind = "number"
          THEN allClients[1].hashrate.value ELSE 0)
            + SumHashrates(Tail(allClients))

\* allClients = sv1Data?.items || []
sv1TotalHashrate(d) ==
    IF d.sv1Data = Undefined THEN 0 ELSE SumHashrates(d.sv1Data.items)

\* isJdMode ? (poolGlobal?.clients.total_hashrate || 0) : sv1TotalHashrate
totalHashrate(d) ==
    IF d.mode = "jdc"
    THEN (IF d.poolGlobal = Undefined THEN 0 ELSE d.poolGlobal.clients.total_hashrate)
    ELSE sv1TotalHashrate(d)

DInit == HQuiet /\ FIdle /\ PQuiet

\* The dashboard mounts inside the provider: its hooks run with what the query
\* cache holds, and the effect of useRecordHashrate runs with totalHashrate
DashMount(w) ==
    /\ ~dash.rendered
    /\ dash' = [dash EXCEPT !.rendered = TRUE]
    /\ AddPoint(totalHashrate(dash), w)
    /\ UNCHANGED notDash

\* A query settles and the dashboard renders again; the effect of
\* useRecordHashrate runs again when totalHashrate has changed
DashRender(d, w) ==
    /\ phase = "mounted"
    /\ dash.rendered
    /\ d # dash
    /\ Follows(dash, d)
    /\ dash' = d
    /\ IF totalHashrate(d) # totalHashrate(dash)
       THEN AddPoint(totalHashrate(d), w)
       ELSE /\ w = "ok"
            /\ ops < MaxOps
            /\ ops' = ops + 1
            /\ op' = [name |-> "render", added |-> FALSE, r |-> "none", w |-> "none"]
            /\ UNCHANGED <<now, ticks, phase, history, lastSampleTime,
                           storage, accepted, session, raised>>
    /\ UNCHANGED notDash

\* The user leaves the dashboard: the provider and the query cache stay
DashUnmount ==
    /\ dash.rendered
    /\ ops < MaxOps
    /\ ops' = ops + 1
    /\ dash' = [dash EXCEPT !.rendered = FALSE]
    /\ op' = [name |-> "leave", added |-> FALSE, r |-> "none", w |-> "none"]
    /\ UNCHANGED <<now, ticks, phase, history, lastSampleTime,
                   storage, accepted, session, raised>>
    /\ UNCHANGED notDash

DNext ==
    \/ \E r \in StorageOutcomes, w \in StorageOutcomes : Load(r, w)
    \/ \E w \in StorageOutcomes : DashMount(w)
    \/ \E d \in DashStates, w \in StorageOutcomes : DashRender(d, w)
    \/ DashUnmount
    \/ \E d \in TickSteps : Tick(d)

SpecDash == DInit /\ [][DNext]_vars

\* the data the sample is computed from has been fetched: the mode is
\* resolved, the query totalHashrate reads has data, a backend is reachable
DataLoaded(d) ==
    /\ d.mode # "undefined"
    /\ d.health = "some"
    /\ IF d.mode = "jdc" THEN d.poolGlobal # Undefined ELSE d.sv1Data # Undefined

\* C30 as stated: a sample is appended only by a render whose data is
\* loaded - never while the mode is pending, the data the hashrate is read
\* from has not arrived, or no backend is reachable.
C30_OnlyFetchedData ==
    (op.name = "record" /\ op.added) => (dash.rendered /\ DataLoaded(dash))

====
